---- MODULE Spec2Model ----
(***************************************************************************)
(* HowzatForData: the JSON-to-row flattening of CricketDataIngestor        *)
(* (src/src/data_ingestor.py) and the temporal filter and outcome          *)
(* validation of CricketDataPreprocessor (src/src/data_preprocessor.py).   *)
(*                                                                         *)
(* Four specifications share the variables:                                *)
(*   SpecFlatten  one match document through _extract_match_info and      *)
(*                _extract_deliveries;                                     *)
(*   SpecIngest   a directory through __init__ and ingest_all;             *)
(*   SpecPre      a dataset through clean_data / validate_match_outcomes;  *)
(*   SpecCli      runs of main.py (ingest, preprocess, all) over one raw   *)
(*                directory and the two parquet files.                     *)
(*                                                                         *)
(* Values.  A column of a frame is either an object column (strings, the   *)
(* absent value is None) or a numeric column (integers, the absent value   *)
(* is NaN).  A date string "YYYY-MM-DD" is carried as the integer          *)
(* YYYYMMDD.  Of the ~50 columns of a delivery record the model carries    *)
(* the ones the checked properties read: see MetaCols and DeliveryCols.    *)
(***************************************************************************)
EXTENDS Integers, Sequences, FiniteSets, TLC

VARIABLES
    \* SpecFlatten: _parse_single_file on one document
    f_data,          \* the parsed JSON document
    f_match_info,    \* result of _extract_match_info
    f_all_balls,     \* result of _extract_deliveries
    f_warnings,      \* number of logger.warning calls of _extract_match_info
    f_pc,            \* "start" | "info" | "done"
    \* SpecIngest: CricketDataIngestor
    directory,       \* the directory entries, in discovery order
    files,           \* self.files: positions of the *.json entries
    idx,             \* number of entries of self.files the loop has handled
    all_dfs,         \* ingest_all's all_dfs
    success_count,
    error_count,
    error_log,       \* files for which logger.error was called, in order
    warnings_emitted,\* number of warnings.warn calls of ingest_all
    result,          \* the frame ingest_all returned
    ing_pc,          \* "new" | "loop" | "returned" | "raised"
    \* SpecPre: CricketDataPreprocessor
    self_df,         \* self.df
    year,            \* self.modern_data_filter_year
    df_clean,        \* the frame clean_data returned
    discrepancies,   \* the rows validate_match_outcomes returned
    summary,         \* the match_summary the last validation computed
    pre_pc,          \* "ready" | "cleaned" | "validated" | "raised"
    \* SpecCli: main.py
    command,         \* args.command of the running process
    args_year,       \* args.year of the running process
    cli_pc,          \* where the running process is; "shell" when none runs
    raised,          \* the exception propagating out of args.func, or "none"
    ingested_data,   \* the file at paths["ingested_data"]
    preprocessed_data, \* the file at paths["preprocessed_data"]
    exits            \* the finished processes: command, exception, exit status

flatten_vars == <<f_data, f_match_info, f_all_balls, f_warnings, f_pc>>
ingest_vars == <<directory, files, idx, all_dfs, success_count, error_count,
                 error_log, warnings_emitted, result, ing_pc>>
pre_vars == <<self_df, year, df_clean, discrepancies, summary, pre_pc>>
cli_vars == <<command, args_year, cli_pc, raised, ingested_data, preprocessed_data, exits>>
vars == <<flatten_vars, ingest_vars, pre_vars, cli_vars>>

----------------------------------------------------------------------------
\* Values

None == "None"
NaN == 0 - 1

MetaCols == {"match_id", "start_date", "venue", "team_a", "team_b",
             "outcome_winner", "outcome_result"}
DeliveryCols == {"innings_num", "batting_team", "bowling_team", "over", "ball",
                 "runs_total", "is_wicket", "player_out", "dismissal_kind",
                 "fielder_1", "fielder_2"}
AllCols == MetaCols \cup DeliveryCols
IntCols == {"match_id", "start_date", "innings_num", "over", "ball",
            "runs_total", "is_wicket"}

NullOf(c) == IF c \in IntCols THEN NaN ELSE None
IsNull(c, v) == IF c \in IntCols THEN v = NaN ELSE v = None

\* Sequences over S of length lo..hi
SeqsBetween(S, lo, hi) == UNION {[1..n -> S] : n \in lo..hi}

RECURSIVE Flatten(_)
Flatten(ss) == IF ss = <<>> THEN <<>> ELSE Head(ss) \o Flatten(Tail(ss))

RECURSIVE SumSeq(_)
SumSeq(s) == IF s = <<>> THEN 0 ELSE Head(s) + SumSeq(Tail(s))

----------------------------------------------------------------------------
\* Bounds of the inputs

MaxDeliveries == 3   \* deliveries in one document
MaxInnings == 2      \* innings in one document
MaxOvers == 2        \* overs in one innings
MaxFiles == 2        \* entries in the directory
MaxMatches == 2      \* matches in a dataset given to the preprocessor
MaxRows == 2         \* rows of the match whose totals are varied
MaxCommands == 2     \* runs of main.py in a row

----------------------------------------------------------------------------
\* Source documents (the JSON of one match)

Teams == {"X", "Y"}
TeamLists == SeqsBetween(Teams, 0, 2)

Fielder(kind, name) == [kind |-> kind, name |-> name]
Wicket(p, k, fs) == [player_out |-> p, kind |-> k, fielders |-> fs]

\* the "wickets" lists of a delivery: absent or empty, one dismissal with a
\* fielder given as a string, one with fielders given as objects (one without
\* a name) and as a string, one dismissal with no detail, two dismissals
WicketLists ==
    { <<>>,
      << Wicket("P1", "caught", << Fielder("str", "F1") >>) >>,
      << Wicket("P1", "run out", << Fielder("dict", None), Fielder("dict", "F1"),
                                    Fielder("other", None), Fielder("str", "F2") >>) >>,
      << Wicket(None, None, <<>>) >>,
      << Wicket("P1", "bowled", <<>>),
         Wicket("P2", "run out", << Fielder("str", "F1") >>) >> }

Delivery(r, ws) == [runs_total |-> r, wickets |-> ws]
AllDeliveries == {Delivery(r, ws) : r \in {0, 1}, ws \in WicketLists}
PlainBall == Delivery(1, <<>>)
WicketBall == Delivery(0, << Wicket("P1", "caught", << Fielder("str", "F1") >>) >>)

Over(n, ds) == [over |-> n, deliveries |-> ds]
Innings(t, os) == [team |-> t, overs |-> os]
Info(ts, ds, v, w, r) ==
    [teams |-> ts, dates |-> ds, venue |-> v, outcome_winner |-> w, outcome_result |-> r]
Document(info, inns) == [info |-> info, innings |-> inns]

PlainInfo == Info(<<"X", "Y">>, <<20150301>>, "V", "X", None)

\* the sizes of at most n overs holding at most b deliveries in all
RECURSIVE SizeLists(_, _)
SizeLists(n, b) ==
    IF n = 0 THEN {<<>>}
    ELSE {<<>>} \cup
         UNION { { <<c>> \o rest : rest \in SizeLists(n - 1, b - c) } : c \in 0..b }

\* the over sizes of at most n innings holding at most b deliveries in all
RECURSIVE ShapeLists(_, _)
ShapeLists(n, b) ==
    IF n = 0 THEN {<<>>}
    ELSE {<<>>} \cup
         UNION { { <<sizes>> \o rest :
                     sizes \in {z \in SizeLists(MaxOvers, b) : SumSeq(z) = c},
                     rest \in ShapeLists(n - 1, b - c) } :
                 c \in 0..b }

\* the document of a shape: the teams bat in turn, the overs are numbered from
\* 0 in listed order, and neighbouring deliveries differ
DocOfShape(shape) ==
    Document(PlainInfo,
             [i \in 1..Len(shape) |->
                Innings(IF i % 2 = 1 THEN "X" ELSE "Y",
                        [j \in 1..Len(shape[i]) |->
                           Over(j - 1, [d \in 1..shape[i][j] |->
                                          IF (d + j) % 2 = 0 THEN PlainBall
                                          ELSE WicketBall])])])

\* documents that vary the innings / over / delivery structure
StructureDocs == {DocOfShape(shape) : shape \in ShapeLists(MaxInnings, MaxDeliveries)}

\* documents that vary the team list and the batting team of each innings
TeamDocs ==
    { Document(Info(ts, <<20150301>>, "V", None, None),
               [i \in 1..Len(bs) |-> Innings(bs[i], << Over(0, <<PlainBall>>) >>)]) :
        ts \in TeamLists, bs \in SeqsBetween(Teams \cup {None}, 1, MaxInnings) }

\* documents that vary the deliveries of one over
DeliveryDocs ==
    { Document(PlainInfo, << Innings("X", << Over(0, ds) >>) >>) :
        ds \in SeqsBetween(AllDeliveries, 1, 2) }

FlattenDocs == StructureDocs \cup TeamDocs \cup DeliveryDocs

----------------------------------------------------------------------------
\* CricketDataIngestor._extract_match_info

extract_match_info(data, match_id) ==
    LET info == data.info
        teams == info.teams
        dates == info.dates
    IN  [match_id |-> match_id,
         start_date |-> IF dates # <<>> THEN dates[1] ELSE NaN,
         venue |-> info.venue,
         team_a |-> IF Len(teams) > 0 THEN teams[1] ELSE None,
         team_b |-> IF Len(teams) > 1 THEN teams[2] ELSE None,
         outcome_winner |-> info.outcome_winner,
         outcome_result |-> info.outcome_result]

\* the logger.warning calls of _extract_match_info (lines 112-113)
match_info_warnings(data) == IF data.info.teams = <<>> THEN 1 ELSE 0

\* CricketDataIngestor._extract_fielder_names
RECURSIVE extract_fielder_names(_)
extract_fielder_names(fielders_list) ==
    IF fielders_list = <<>> THEN <<>>
    ELSE LET fielder == Head(fielders_list)
             names == extract_fielder_names(Tail(fielders_list))
         IN  IF fielder.kind = "str" THEN <<fielder.name>> \o names
             ELSE IF fielder.kind = "dict" /\ fielder.name # None
                  THEN <<fielder.name>> \o names
                  ELSE names

\* the wicket block of _parse_delivery (lines 299-324)
wicket_fields_count(wickets) ==
    IF wickets # <<>>
    THEN LET primary_wicket == wickets[1]
             fielder_names == extract_fielder_names(primary_wicket.fielders)
         IN  [is_wicket |-> Len(wickets),
              player_out |-> primary_wicket.player_out,
              dismissal_kind |-> primary_wicket.kind,
              fielder_1 |-> IF Len(fielder_names) > 0 THEN fielder_names[1] ELSE None,
              fielder_2 |-> IF Len(fielder_names) > 1 THEN fielder_names[2] ELSE None]
    ELSE [is_wicket |-> 0, player_out |-> None, dismissal_kind |-> None,
          fielder_1 |-> None, fielder_2 |-> None]

wicket_fields(wickets) ==
    IF wickets # <<>>
    THEN LET primary_wicket == wickets[1]
             fielder_names == extract_fielder_names(primary_wicket.fielders)
         IN  [is_wicket |-> 1,
              player_out |-> primary_wicket.player_out,
              dismissal_kind |-> primary_wicket.kind,
              fielder_1 |-> IF Len(fielder_names) > 0 THEN fielder_names[1] ELSE None,
              fielder_2 |-> IF Len(fielder_names) > 1 THEN fielder_names[2] ELSE None]
    ELSE [is_wicket |-> 0, player_out |-> None, dismissal_kind |-> None,
          fielder_1 |-> None, fielder_2 |-> None]

\* CricketDataIngestor._parse_delivery
parse_delivery(delivery, match_info, innings_num, batting_team, bowling_team, over_num, ball_idx) ==
    LET w == wicket_fields(delivery.wickets)
    IN  [match_id |-> match_info.match_id,
         start_date |-> match_info.start_date,
         venue |-> match_info.venue,
         team_a |-> match_info.team_a,
         team_b |-> match_info.team_b,
         outcome_winner |-> match_info.outcome_winner,
         outcome_result |-> match_info.outcome_result,
         innings_num |-> innings_num,
         batting_team |-> batting_team,
         bowling_team |-> bowling_team,
         over |-> over_num,
         ball |-> ball_idx + 1,
         runs_total |-> delivery.runs_total,
         is_wicket |-> w.is_wicket,
         player_out |-> w.player_out,
         dismissal_kind |-> w.dismissal_kind,
         fielder_1 |-> w.fielder_1,
         fielder_2 |-> w.fielder_2]

\* "Determine bowling team" of _extract_deliveries (lines 214-220)
bowling_team_of(batting_team, match_info) ==
    IF batting_team = match_info.team_a THEN match_info.team_b
    ELSE IF batting_team = match_info.team_b THEN match_info.team_a
    ELSE None

\* the loop over the deliveries of one over, stopping one delivery early
RECURSIVE deliveries_loop_short(_, _, _, _, _, _, _, _)
deliveries_loop_short(all_balls, deliveries, ball_idx, match_info, innings_num, batting_team, bowling_team, over_num) ==
    IF ball_idx + 1 >= Len(deliveries) THEN all_balls
    ELSE deliveries_loop_short(
             Append(all_balls,
                    parse_delivery(deliveries[ball_idx + 1], match_info, innings_num,
                                   batting_team, bowling_team, over_num, ball_idx)),
             deliveries, ball_idx + 1, match_info, innings_num, batting_team,
             bowling_team, over_num)

\* the loop over the deliveries of one over (lines 228-239)
RECURSIVE deliveries_loop(_, _, _, _, _, _, _, _)
deliveries_loop(all_balls, deliveries, ball_idx, match_info, innings_num, batting_team, bowling_team, over_num) ==
    IF ball_idx >= Len(deliveries) THEN all_balls
    ELSE deliveries_loop(
             Append(all_balls,
                    parse_delivery(deliveries[ball_idx + 1], match_info, innings_num,
                                   batting_team, bowling_team, over_num, ball_idx)),
             deliveries, ball_idx + 1, match_info, innings_num, batting_team,
             bowling_team, over_num)

\* the loop over the overs of one innings (lines 222-226)
RECURSIVE overs_loop(_, _, _, _, _, _)
overs_loop(all_balls, overs, match_info, innings_num, batting_team, bowling_team) ==
    IF overs = <<>> THEN all_balls
    ELSE LET over_data == Head(overs)
         IN  overs_loop(
                 deliveries_loop(all_balls, over_data.deliveries, 0, match_info,
                                 innings_num, batting_team, bowling_team, over_data.over),
                 Tail(overs), match_info, innings_num, batting_team, bowling_team)

\* the loop over the innings (lines 206-222)
RECURSIVE innings_loop(_, _, _, _)
innings_loop(all_balls, innings_list, innings_idx, match_info) ==
    IF innings_idx >= Len(innings_list) THEN all_balls
    ELSE LET innings == innings_list[innings_idx + 1]
             batting_team == innings.team
             bowling_team == bowling_team_of(batting_team, match_info)
         IN  innings_loop(
                 overs_loop(all_balls, innings.overs, match_info, innings_idx + 1,
                            batting_team, bowling_team),
                 innings_list, innings_idx + 1, match_info)

\* CricketDataIngestor._extract_deliveries
extract_deliveries(data, match_info) ==
    IF data.innings = <<>> THEN <<>>
    ELSE innings_loop(<<>>, data.innings, 0, match_info)

----------------------------------------------------------------------------
\* SpecFlatten: one document through the two extraction steps of
\* _parse_single_file

IdleFlatten ==
    /\ f_data = Document(PlainInfo, <<>>)
    /\ f_match_info = extract_match_info(Document(PlainInfo, <<>>), 1)
    /\ f_all_balls = <<>>
    /\ f_warnings = 0
    /\ f_pc = "idle"

IdleIngest ==
    /\ directory = <<>>
    /\ files = <<>>
    /\ idx = 0
    /\ all_dfs = <<>>
    /\ success_count = 0
    /\ error_count = 0
    /\ error_log = <<>>
    /\ warnings_emitted = 0
    /\ result = [columns |-> {}, rows |-> <<>>]
    /\ ing_pc = "idle"

IdlePre ==
    /\ self_df = [columns |-> {}, rows |-> <<>>]
    /\ year = 0
    /\ df_clean = [columns |-> {}, rows |-> <<>>]
    /\ discrepancies = <<>>
    /\ summary = <<>>
    /\ pre_pc = "idle"

\* a parquet file: whether it exists, and the frame it holds
NoFile == [exists |-> FALSE, columns |-> {}, rows |-> <<>>]

IdleCli ==
    /\ command = "none"
    /\ args_year = 0
    /\ cli_pc = "idle"
    /\ raised = "none"
    /\ ingested_data = NoFile
    /\ preprocessed_data = NoFile
    /\ exits = <<>>

InitFlatten ==
    /\ f_data \in FlattenDocs
    /\ f_match_info = extract_match_info(Document(PlainInfo, <<>>), 1)
    /\ f_all_balls = <<>>
    /\ f_warnings = 0
    /\ f_pc = "start"
    /\ IdleIngest
    /\ IdlePre
    /\ IdleCli

\* match_info = self._extract_match_info(data, match_id)      (line 84)
ExtractMatchInfo ==
    /\ f_pc = "start"
    /\ f_match_info' = extract_match_info(f_data, 1)
    /\ f_warnings' = f_warnings + match_info_warnings(f_data)
    /\ f_pc' = "info"
    /\ UNCHANGED <<f_data, f_all_balls, ingest_vars, pre_vars, cli_vars>>

\* all_balls = self._extract_deliveries(data, match_info, match_id)  (line 85)
ExtractDeliveries ==
    /\ f_pc = "info"
    /\ f_all_balls' = extract_deliveries(f_data, f_match_info)
    /\ f_pc' = "done"
    /\ UNCHANGED <<f_data, f_match_info, f_warnings, ingest_vars, pre_vars, cli_vars>>

NextFlatten == ExtractMatchInfo \/ ExtractDeliveries

SpecFlatten == InitFlatten /\ [][NextFlatten]_vars

----------------------------------------------------------------------------
\* Properties of the flattening (SpecFlatten)

\* the deliveries of the document: <<i, j, b>> is delivery b of over j of
\* innings i, counted from 1 in listed order
Positions(data) ==
    { <<i, j, b>> \in (1..Len(data.innings)) \X (1..MaxOvers + 1) \X (1..MaxDeliveries + 1) :
        /\ j <= Len(data.innings[i].overs)
        /\ b <= Len(data.innings[i].overs[j].deliveries) }

\* p comes before q in document order
Before(p, q) ==
    \/ p[1] < q[1]
    \/ p[1] = q[1] /\ p[2] < q[2]
    \/ p[1] = q[1] /\ p[2] = q[2] /\ p[3] < q[3]

\* the place in document order of the delivery at p
Place(data, p) == Cardinality({q \in Positions(data) : Before(q, p)}) + 1

SourceDelivery(data, p) == data.innings[p[1]].overs[p[2]].deliveries[p[3]]

\* C1: _extract_deliveries returns exactly one record per delivery of
\* innings[*].overs[*].deliveries, and the records are in document order: the
\* record at the k-th place is the record of the k-th delivery counted by
\* innings, then over, then delivery.
C1_OneRecordPerDeliveryInOrder ==
    f_pc = "done" =>
        /\ Len(f_all_balls) = Cardinality(Positions(f_data))
        /\ \A p \in Positions(f_data) :
             /\ Place(f_data, p) <= Len(f_all_balls)
             /\ LET rec == f_all_balls[Place(f_data, p)]
                    d == SourceDelivery(f_data, p)
                IN  /\ rec.innings_num = p[1]
                    /\ rec.over = f_data.innings[p[1]].overs[p[2]].over
                    /\ rec.ball = p[3]
                    /\ rec.batting_team = f_data.innings[p[1]].team
                    /\ rec.runs_total = d.runs_total
                    /\ (rec.is_wicket = 0) = (d.wickets = <<>>)

\* a document with two non-empty innings, an innings with two non-empty overs
\* and an over with two deliveries has been flattened
C1_Witness ==
    /\ f_pc = "done"
    /\ Len(f_all_balls) >= 3
    /\ \E k \in 1..Len(f_all_balls) : f_all_balls[k].innings_num = 2
    /\ \E k, l \in 1..Len(f_all_balls) :
         /\ f_all_balls[k].innings_num = f_all_balls[l].innings_num
         /\ f_all_balls[k].over # f_all_balls[l].over
    /\ f_all_balls[1].runs_total # f_all_balls[2].runs_total

\* C2: in every record of _parse_delivery is_wicket is 1 exactly when the
\* source delivery's wickets list is non-empty and 0 otherwise, and when
\* is_wicket is 0 player_out, dismissal_kind, fielder_1 and fielder_2 are null.
C2_WicketFlag ==
    f_pc = "done" =>
        \A p \in Positions(f_data) :
            Place(f_data, p) <= Len(f_all_balls) =>
                LET rec == f_all_balls[Place(f_data, p)]
                    d == SourceDelivery(f_data, p)
                IN  /\ rec.is_wicket = IF d.wickets # <<>> THEN 1 ELSE 0
                    /\ rec.is_wicket = 0 =>
                         /\ rec.player_out = None
                         /\ rec.dismissal_kind = None
                         /\ rec.fielder_1 = None
                         /\ rec.fielder_2 = None

\* an over with a delivery carrying two dismissals and a delivery carrying
\* none has been flattened
C2_Witness ==
    /\ f_pc = "done"
    /\ \E p, q \in Positions(f_data) :
         /\ Len(SourceDelivery(f_data, p).wickets) = 2
         /\ SourceDelivery(f_data, q).wickets = <<>>
         /\ f_all_balls[Place(f_data, p)].is_wicket = 1
         /\ f_all_balls[Place(f_data, p)].fielder_1 = None
         /\ f_all_balls[Place(f_data, q)].is_wicket = 0

\* C3: in every delivery record bowling_team is one of team_a, team_b or
\* null, is never equal to batting_team, and is null only when batting_team
\* matches neither team_a nor team_b.
C3_BowlingTeamAsClaimed ==
    f_pc = "done" =>
        \A k \in 1..Len(f_all_balls) :
            LET rec == f_all_balls[k]
            IN  /\ rec.bowling_team \in {rec.team_a, rec.team_b, None}
                /\ rec.bowling_team # rec.batting_team
                /\ rec.bowling_team = None =>
                     rec.batting_team \notin {rec.team_a, rec.team_b}

\* C14: for every document whose team list has fewer than two entries,
\* _extract_match_info returns (it does not raise) with team_b null, with
\* team_a null as well when the list is empty, and has emitted a warning.
C14_ShortTeamListWarned ==
    (f_pc \in {"info", "done"} /\ Len(f_data.info.teams) < 2) =>
        /\ f_match_info.team_b = None
        /\ f_data.info.teams = <<>> => f_match_info.team_a = None
        /\ f_warnings >= 1

----------------------------------------------------------------------------
\* Frames (pandas.DataFrame): the set of columns and the rows in order; a row
\* is a function from the frame's columns to values

EmptyFrame == [columns |-> {}, rows |-> <<>>]

\* pd.DataFrame(all_balls) for a non-empty list of records
DataFrame(all_balls) ==
    [columns |-> AllCols,
     rows |-> [i \in 1..Len(all_balls) |-> [c \in AllCols |-> all_balls[i][c]]]]

\* df.empty
empty(df) == df.rows = <<>> \/ df.columns = {}

\* df.dropna(axis=1, how="all")
dropna_all(df) ==
    LET keep == {c \in df.columns :
                    \E i \in 1..Len(df.rows) : ~IsNull(c, df.rows[i][c])}
    IN  [columns |-> keep,
         rows |-> [i \in 1..Len(df.rows) |-> [c \in keep |-> df.rows[i][c]]]]

\* pd.concat(dfs, join="inner", ignore_index=True): only the columns every
\* frame has
concat_inner(dfs) ==
    LET cols == {c \in AllCols : \A k \in 1..Len(dfs) : c \in dfs[k].columns}
        cut(df) == [i \in 1..Len(df.rows) |-> [c \in cols |-> df.rows[i][c]]]
    IN  [columns |-> cols,
         rows |-> Flatten([k \in 1..Len(dfs) |-> cut(dfs[k])])]

\* pd.concat with the frames taken last to first
concat_reversed(dfs) ==
    LET cols == UNION {dfs[k].columns : k \in 1..Len(dfs)}
        fill(df) == [i \in 1..Len(df.rows) |->
                        [c \in cols |-> IF c \in df.columns THEN df.rows[i][c]
                                        ELSE NullOf(c)]]
    IN  [columns |-> cols,
         rows |-> Flatten([k \in 1..Len(dfs) |-> fill(dfs[Len(dfs) + 1 - k])])]

\* pd.concat(dfs, ignore_index=True): the union of the columns, the rows in
\* order, a column a frame lacks filled with the absent value
concat(dfs) ==
    LET cols == UNION {dfs[k].columns : k \in 1..Len(dfs)}
        fill(df) == [i \in 1..Len(df.rows) |->
                        [c \in cols |-> IF c \in df.columns THEN df.rows[i][c]
                                        ELSE NullOf(c)]]
    IN  [columns |-> cols,
         rows |-> Flatten([k \in 1..Len(dfs) |-> fill(dfs[k])])]

----------------------------------------------------------------------------
\* The directory given to CricketDataIngestor

Entry(ext, status, data) == [ext |-> ext, status |-> status, data |-> data]

IngestInfos ==
    { Info(<<"X", "Y">>, <<20150301, 20150302>>, "V", "X", None),
      Info(<<"X", "Y">>, <<20140301>>, None, None, "draw"),
      Info(<<"X">>, <<20150301>>, "V", None, "no result"),
      Info(<<>>, <<>>, None, None, None) }

IngestInnings ==
    { <<>>,
      << Innings("X", <<>>) >>,
      << Innings("X", << Over(0, <<>>) >>) >>,
      << Innings("X", << Over(0, <<PlainBall>>) >>) >>,
      << Innings("X", << Over(0, <<PlainBall, WicketBall>>) >>),
         Innings("Y", << Over(0, <<PlainBall>>) >>) >> }

\* a file that is not *.json, a *.json file json.load rejects, a *.json file
\* whose content makes the extraction raise, and the well-formed documents
Entries ==
    { Entry("txt", "ok", Document(PlainInfo, <<>>)),
      Entry("json", "bad_json", Document(PlainInfo, <<>>)),
      Entry("json", "bad_flatten", Document(PlainInfo, <<>>)) }
    \cup { Entry("json", "ok", Document(i, inns)) : i \in IngestInfos, inns \in IngestInnings }

Directories == SeqsBetween(Entries, 0, MaxFiles)

\* self.raw_data_path.glob("*.json"): the positions of the matching entries,
\* in discovery order; the position of an entry in the directory stands for
\* its file name, so file_path.stem is that position
RECURSIVE glob_json(_, _)
glob_json(dir, k) ==
    IF k > Len(dir) THEN <<>>
    ELSE (IF dir[k].ext = "json" THEN <<k>> ELSE <<>>) \o glob_json(dir, k + 1)

\* CricketDataIngestor._parse_single_file: the frame it returns, or raised
parse_single_file(dir, file_path) ==
    LET entry == dir[file_path]
    IN  IF entry.status # "ok"
        THEN [raised |-> TRUE, df |-> EmptyFrame]
        ELSE LET match_id == file_path
                 match_info == extract_match_info(entry.data, match_id)
                 all_balls == extract_deliveries(entry.data, match_info)
             IN  [raised |-> FALSE,
                  df |-> IF all_balls = <<>> THEN EmptyFrame ELSE DataFrame(all_balls)]

----------------------------------------------------------------------------
\* SpecIngest

InitIngest ==
    /\ directory \in Directories
    /\ files = <<>>
    /\ idx = 0
    /\ all_dfs = <<>>
    /\ success_count = 0
    /\ error_count = 0
    /\ error_log = <<>>
    /\ warnings_emitted = 0
    /\ result = EmptyFrame
    /\ ing_pc = "new"
    /\ IdleFlatten
    /\ IdlePre
    /\ IdleCli

\* __init__ that keeps an ingestor with no files
ConstructUnchecked ==
    /\ ing_pc = "new"
    /\ files' = glob_json(directory, 1)
    /\ ing_pc' = "constructed"
    /\ UNCHANGED <<directory, idx, all_dfs, success_count, error_count, error_log,
                   warnings_emitted, result, flatten_vars, pre_vars, cli_vars>>

\* CricketDataIngestor.__init__
Construct ==
    /\ ing_pc = "new"
    /\ files' = glob_json(directory, 1)
    /\ ing_pc' = IF glob_json(directory, 1) = <<>> THEN "raised" ELSE "constructed"
    /\ UNCHANGED <<directory, idx, all_dfs, success_count, error_count, error_log,
                   warnings_emitted, result, flatten_vars, pre_vars, cli_vars>>

\* ingest_all, lines 42-44
IngestAllStart ==
    /\ ing_pc = "constructed"
    /\ all_dfs' = <<>>
    /\ success_count' = 0
    /\ error_count' = 0
    /\ idx' = 0
    /\ ing_pc' = "loop"
    /\ UNCHANGED <<directory, files, error_log, warnings_emitted, result,
                   flatten_vars, pre_vars, cli_vars>>

\* one iteration of the loop with the except clause missing
ParseFileUncaught ==
    /\ ing_pc = "loop"
    /\ idx < Len(files)
    /\ LET file_path == files[idx + 1]
           r == parse_single_file(directory, file_path)
       IN  IF r.raised
           THEN /\ ing_pc' = "raised"
                /\ UNCHANGED <<all_dfs, success_count, error_count, error_log, idx>>
           ELSE /\ all_dfs' = Append(all_dfs, r.df)
                /\ success_count' = success_count + 1
                /\ idx' = idx + 1
                /\ UNCHANGED <<error_count, error_log, ing_pc>>
    /\ UNCHANGED <<directory, files, warnings_emitted, result, flatten_vars, pre_vars, cli_vars>>

\* one iteration of the loop of ingest_all, lines 46-53
ParseFile ==
    /\ ing_pc = "loop"
    /\ idx < Len(files)
    /\ LET file_path == files[idx + 1]
           r == parse_single_file(directory, file_path)
       IN  IF r.raised
           THEN /\ error_count' = error_count + 1
                /\ error_log' = Append(error_log, file_path)
                /\ UNCHANGED <<all_dfs, success_count>>
           ELSE /\ all_dfs' = Append(all_dfs, r.df)
                /\ success_count' = success_count + 1
                /\ UNCHANGED <<error_count, error_log>>
    /\ idx' = idx + 1
    /\ UNCHANGED <<directory, files, warnings_emitted, result, ing_pc,
                   flatten_vars, pre_vars, cli_vars>>

\* ingest_all after the loop, lines 55-68
IngestAllFinish ==
    /\ ing_pc = "loop"
    /\ idx = Len(files)
    /\ warnings_emitted' = IF error_count > 0 THEN warnings_emitted + 1
                           ELSE warnings_emitted
    /\ LET kept == SelectSeq(all_dfs, LAMBDA df : ~empty(df))
           non_empty_dfs == [k \in 1..Len(kept) |-> dropna_all(kept[k])]
       IN  result' = IF non_empty_dfs = <<>> THEN EmptyFrame ELSE concat(non_empty_dfs)
    /\ ing_pc' = "returned"
    /\ UNCHANGED <<directory, files, idx, all_dfs, success_count, error_count,
                   error_log, flatten_vars, pre_vars, cli_vars>>

NextIngest == Construct \/ IngestAllStart \/ ParseFile \/ IngestAllFinish

SpecIngest == InitIngest /\ [][NextIngest]_vars

----------------------------------------------------------------------------
\* Properties of the ingestion (SpecIngest)

JsonFiles == {k \in 1..Len(directory) : directory[k].ext = "json"}
FailingFiles == {k \in JsonFiles : directory[k].status # "ok"}
ParsedFiles == JsonFiles \ FailingFiles
DeliveriesIn(k) == Cardinality(Positions(directory[k].data))

\* the rows of the returned frame that carry match_id k, in order
RowsOf(k) == SelectSeq(result.rows, LAMBDA r : r["match_id"] = k)

\* the records the flattening gives for file k alone
RecordsOf(k) ==
    extract_deliveries(directory[k].data, extract_match_info(directory[k].data, k))

\* C4: constructing the ingestor on a directory with no *.json file raises
\* before any file is parsed; with at least one *.json file it succeeds, and
\* if every such file is a valid document with no deliveries, ingest_all
\* returns an empty dataset and does not raise.
C4_MissingInputAndEmptyCorpus ==
    /\ ing_pc # "new" => ((ing_pc = "raised") <=> (JsonFiles = {}))
    /\ ing_pc = "raised" =>
         /\ idx = 0 /\ all_dfs = <<>>
         /\ success_count = 0 /\ error_count = 0 /\ error_log = <<>>
    /\ (ing_pc = "returned" /\ FailingFiles = {}
          /\ \A k \in JsonFiles : DeliveriesIn(k) = 0) =>
         /\ result.rows = <<>>
         /\ result.columns = {}
         /\ warnings_emitted = 0

\* ingest_all has returned the empty dataset for a directory of two valid
\* documents without deliveries
C4_Witness ==
    /\ ing_pc = "returned"
    /\ Cardinality(JsonFiles) = 2
    /\ FailingFiles = {}
    /\ \A k \in JsonFiles : DeliveriesIn(k) = 0
    /\ \E k \in JsonFiles : directory[k].data.innings # <<>>
    /\ result = EmptyFrame

\* C5: a failure while parsing or flattening one file never escapes
\* ingest_all and never keeps the remaining files from being processed: the
\* result holds exactly the rows of the files that did not fail, and the
\* aggregate warning is emitted once after the pass exactly when a file failed.
C5_PerFileFailureIsolated ==
    /\ ing_pc = "raised" => files = <<>>
    /\ ing_pc \in {"loop", "returned"} =>
         /\ success_count + error_count = idx
         /\ ing_pc = "loop" => warnings_emitted = 0
    /\ ing_pc = "returned" =>
         /\ idx = Len(files)
         /\ error_count = Cardinality(FailingFiles)
         /\ warnings_emitted = (IF FailingFiles # {} THEN 1 ELSE 0)
         /\ \A k \in 1..Len(directory) :
              IF k \in ParsedFiles
              THEN /\ Len(RowsOf(k)) = DeliveriesIn(k)
                   /\ \A n \in 1..Len(RowsOf(k)) : \A c \in result.columns :
                        RowsOf(k)[n][c] = RecordsOf(k)[n][c]
              ELSE RowsOf(k) = <<>>
         /\ Len(result.rows) = SumSeq([k \in 1..Len(directory) |->
                                         IF k \in ParsedFiles THEN DeliveriesIn(k) ELSE 0])

\* ingest_all has returned the rows of a file that follows a failing file
C5_Witness ==
    /\ ing_pc = "returned"
    /\ \E k \in FailingFiles : \E l \in ParsedFiles : k < l /\ RowsOf(l) # <<>>
    /\ warnings_emitted = 1

\* C10: when no document fails to parse and none is wholly empty, the
\* dataset has as many distinct match_id values as there are documents, and
\* in every row every metadata column holds the value _extract_match_info
\* returns for the row's document alone; a metadata column the dataset lacks
\* is one whose extracted value is null for every document.
C10_MetadataRoundTrip ==
    (ing_pc = "returned" /\ FailingFiles = {}
       /\ \A k \in JsonFiles : DeliveriesIn(k) > 0) =>
        /\ Cardinality({result.rows[i]["match_id"] : i \in 1..Len(result.rows)})
             = Cardinality(JsonFiles)
        /\ \A i \in 1..Len(result.rows) :
             LET r == result.rows[i]
                 k == r["match_id"]
                 match_info == extract_match_info(directory[k].data, k)
             IN  /\ k \in JsonFiles
                 /\ \A c \in MetaCols :
                      IF c \in result.columns
                      THEN r[c] = match_info[c]
                      ELSE IsNull(c, match_info[c])

\* two documents were ingested, one with a venue and one without, and no
\* document has an outcome_winner
C10_Witness ==
    /\ ing_pc = "returned"
    /\ FailingFiles = {}
    /\ Cardinality(JsonFiles) = 2
    /\ \A k \in JsonFiles : DeliveriesIn(k) > 0
    /\ "venue" \in result.columns
    /\ \E i, j \in 1..Len(result.rows) :
         result.rows[i]["venue"] = None /\ result.rows[j]["venue"] # None
    /\ "outcome_winner" \notin result.columns

\* C11: every dataset ingest_all returns has the full schema: every metadata
\* and delivery column is present, also a column that is null in every row of
\* every file, and also when every document is empty.
C11_FullSchemaAsClaimed ==
    ing_pc = "returned" => result.columns = AllCols

\* the records of the files that parsed, file after file in discovery order
ExpectedRows ==
    Flatten([k \in 1..Len(directory) |-> IF k \in ParsedFiles THEN RecordsOf(k) ELSE <<>>])

\* C16: the rows of the dataset ingest_all returns are the rows of the files
\* that parsed and are non-empty, concatenated in file-discovery order: every
\* row of a file precedes every row of a later file, and the rows of one file
\* are contiguous and in document order.
C16_RowsInDiscoveryOrder ==
    ing_pc = "returned" =>
        LET expected == ExpectedRows
        IN  /\ Len(result.rows) = Len(expected)
            /\ \A n \in 1..Len(result.rows) : \A c \in result.columns :
                 n <= Len(expected) => result.rows[n][c] = expected[n][c]
            /\ \A n, m \in 1..Len(result.rows) :
                 n < m => result.rows[n]["match_id"] <= result.rows[m]["match_id"]

\* two files with deliveries were ingested, the first with three deliveries
\* over two innings
C16_Witness ==
    /\ ing_pc = "returned"
    /\ Len(result.rows) >= 4
    /\ result.rows[1]["match_id"] = 1
    /\ result.rows[1]["runs_total"] # result.rows[2]["runs_total"]
    /\ result.rows[3]["innings_num"] = 2
    /\ result.rows[4]["match_id"] = 2

----------------------------------------------------------------------------
\* CricketDataPreprocessor

\* a pandas Timestamp is a count from an epoch, not a string: the model counts
\* days in a calendar of 12 months of 31 days, so the Timestamp of a date
\* differs from the date string it was parsed from
Timestamp(y, m, d) == (y * 12 + (m - 1)) * 31 + (d - 1)

\* Series.dt.year
dt_year(t) == t \div (12 * 31)

\* pd.to_datetime of a date string: the Timestamp, NaT for a missing one
NaT == NaN
to_datetime(v) ==
    IF v = NaN THEN NaT
    ELSE Timestamp(v \div 10000, (v \div 100) % 100, v % 100)

\* the filter with a strict comparison
modern_data_filter_strict(df, modern_data_filter_year) ==
    LET converted == [i \in 1..Len(df.rows) |->
                        [c \in df.columns |-> IF c = "start_date"
                                              THEN to_datetime(df.rows[i][c])
                                              ELSE df.rows[i][c]]]
        keeps(r) == r["start_date"] # NaT /\ dt_year(r["start_date"]) > modern_data_filter_year
    IN  [columns |-> df.columns, rows |-> SelectSeq(converted, keeps)]

\* CricketDataPreprocessor._modern_data_filter; a NaT year compares false
modern_data_filter(df, modern_data_filter_year) ==
    LET converted == [i \in 1..Len(df.rows) |->
                        [c \in df.columns |-> IF c = "start_date"
                                              THEN to_datetime(df.rows[i][c])
                                              ELSE df.rows[i][c]]]
        keeps(r) == r["start_date"] # NaT /\ dt_year(r["start_date"]) >= modern_data_filter_year
    IN  [columns |-> df.columns, rows |-> SelectSeq(converted, keeps)]

\* the columns _calculate_match_totals reads (a missing one is a KeyError)
TotalsCols == {"match_id", "batting_team", "runs_total", "is_wicket",
               "team_a", "team_b", "outcome_winner", "outcome_result"}

\* the group keys of df.groupby("match_id"), in sorted order
RECURSIVE SortedSeq(_)
SortedSeq(S) ==
    IF S = {} THEN <<>>
    ELSE LET m == CHOOSE x \in S : \A y \in S : x <= y
         IN  <<m>> \o SortedSeq(S \ {m})

\* groupby(...).agg(("c", "first")): the first non-null value of the group
first(rows, c) ==
    LET present == SelectSeq(rows, LAMBDA r : ~IsNull(c, r[c]))
    IN  IF present = <<>> THEN NullOf(c) ELSE present[1][c]

\* sum of a numeric column over rows, NaN skipped
sum(rows, c) ==
    SumSeq([i \in 1..Len(rows) |-> IF rows[i][c] = NaN THEN 0 ELSE rows[i][c]])

\* runs_by_batting_team filtered to one match and one team (lines 128-151):
\* groupby drops the rows whose batting_team is null, and no group key
\* compares equal to a null team
team_data(rows, match_id, team) ==
    SelectSeq(rows, LAMBDA r : /\ r["match_id"] = match_id
                               /\ r["batting_team"] # None
                               /\ team # None
                               /\ r["batting_team"] = team)

\* CricketDataPreprocessor._calculate_match_totals, on self.df
calculate_match_totals(df) ==
    LET ids == SortedSeq({df.rows[i]["match_id"] : i \in 1..Len(df.rows)})
        row(match_id) ==
            LET group == SelectSeq(df.rows, LAMBDA r : r["match_id"] = match_id)
                team_a == first(group, "team_a")
                team_b == first(group, "team_b")
                team_a_data == team_data(df.rows, match_id, team_a)
                team_b_data == team_data(df.rows, match_id, team_b)
            IN  [match_id |-> match_id,
                 team_a |-> team_a,
                 team_b |-> team_b,
                 outcome_winner |-> first(group, "outcome_winner"),
                 outcome_result |-> first(group, "outcome_result"),
                 team_a_runs |-> sum(team_a_data, "runs_total"),
                 team_a_wickets |-> sum(team_a_data, "is_wicket"),
                 team_b_runs |-> sum(team_b_data, "runs_total"),
                 team_b_wickets |-> sum(team_b_data, "is_wicket")]
    IN  [k \in 1..Len(ids) |-> row(ids[k])]

SkippedResults == {"draw", "tie", "no result"}

discrepancy_row(row, calculated_winner) ==
    [match_id |-> row.match_id,
     team_a |-> row.team_a,
     team_b |-> row.team_b,
     team_a_runs |-> row.team_a_runs,
     team_b_runs |-> row.team_b_runs,
     calculated_winner |-> calculated_winner,
     outcome_winner |-> row.outcome_winner,
     outcome_result |-> row.outcome_result]

\* the winner by total runs, with team_a winning a tie
calculated_winner_tie_to_a(row) ==
    IF row.team_a_runs >= row.team_b_runs THEN row.team_a
    ELSE row.team_b

\* "Calculate winner" of _find_outcome_discrepancies (lines 182-189)
calculated_winner_of(row) ==
    IF row.team_a_runs > row.team_b_runs THEN row.team_a
    ELSE IF row.team_b_runs > row.team_a_runs THEN row.team_b
    ELSE None

\* the skip test without the recorded result
skipped_no_result_test(row) ==
    row.outcome_winner = None

\* "Skip draws/no results" of _find_outcome_discrepancies (lines 168-174)
skipped(row) ==
    row.outcome_winner = None \/ row.outcome_result \in SkippedResults

\* CricketDataPreprocessor._find_outcome_discrepancies
RECURSIVE find_outcome_discrepancies(_)
find_outcome_discrepancies(match_summary) ==
    IF match_summary = <<>> THEN <<>>
    ELSE LET row == Head(match_summary)
             rest == find_outcome_discrepancies(Tail(match_summary))
         IN  IF skipped(row) THEN rest
             ELSE IF calculated_winner_of(row) # row.outcome_winner
                  THEN <<discrepancy_row(row, calculated_winner_of(row))>> \o rest
                  ELSE rest

----------------------------------------------------------------------------
\* SpecPre: the datasets given to the preprocessor are flattened documents
\* carrying every column

\* one innings of one over of one delivery per row
RowInnings(rs) ==
    [i \in 1..Len(rs) |-> Innings(rs[i][1], << Over(0, << Delivery(rs[i][2], <<>>) >>) >>)]

\* the match whose teams, recorded outcome and totals are varied
OutcomeInfos ==
    { Info(ts, <<d>>, "V", w, None) :
        ts \in {<<"X", "Y">>, <<"X">>, <<>>, <<"X", "X">>},
        d \in {20140301, 20150301}, w \in {"X", "Y", None} }
    \cup
    { Info(<<"X", "Y">>, <<d>>, "V", w, r) :
        d \in {20140301, 20150301}, w \in {"X", "Y", None}, r \in SkippedResults }

VariedMatches ==
    { << Document(info, RowInnings(rs)) >> :
        info \in OutcomeInfos,
        rs \in SeqsBetween((Teams \cup {None}) \X {1, 2}, 1, MaxRows) }

\* several matches of one row each, with their dates and winners varied
SimpleMatch ==
    { Document(Info(<<"X", "Y">>, <<d>>, "V", w, None), RowInnings(<< <<b, 1>> >>)) :
        d \in {20140301, 20150301}, w \in Teams, b \in Teams }

Corpora == VariedMatches \cup SeqsBetween(SimpleMatch, 1, MaxMatches)

\* the frame of a corpus: document k has match_id k
FrameOf(docs) ==
    concat([k \in 1..Len(docs) |->
              DataFrame(extract_deliveries(docs[k], extract_match_info(docs[k], k)))])

CutoffYears == {2015, 2016}

InitPre ==
    /\ \E docs \in Corpora : self_df = FrameOf(docs)
    /\ year \in CutoffYears
    /\ df_clean = EmptyFrame
    /\ discrepancies = <<>>
    /\ summary = <<>>
    /\ pre_pc = "ready"
    /\ IdleFlatten
    /\ IdleIngest
    /\ IdleCli

\* CricketDataPreprocessor.validate_match_outcomes
ValidateMatchOutcomes ==
    /\ pre_pc \in {"ready", "cleaned", "validated"}
    /\ IF TotalsCols \subseteq self_df.columns
       THEN /\ summary' = calculate_match_totals(self_df)
            /\ discrepancies' = find_outcome_discrepancies(calculate_match_totals(self_df))
            /\ pre_pc' = "validated"
       ELSE /\ pre_pc' = "raised"
            /\ UNCHANGED <<summary, discrepancies>>
    /\ UNCHANGED <<self_df, year, df_clean, flatten_vars, ingest_vars, cli_vars>>

\* CricketDataPreprocessor.clean_data: the filter runs on a copy of self.df,
\* validate_match_outcomes() then reads self.df
CleanData ==
    /\ pre_pc \in {"ready", "cleaned", "validated"}
    /\ IF "start_date" \notin self_df.columns
       THEN /\ pre_pc' = "raised"
            /\ UNCHANGED <<summary, discrepancies, df_clean>>
       ELSE IF ~(TotalsCols \subseteq self_df.columns)
       THEN /\ pre_pc' = "raised"
            /\ UNCHANGED <<summary, discrepancies, df_clean>>
       ELSE /\ summary' = calculate_match_totals(self_df)
            /\ discrepancies' = find_outcome_discrepancies(calculate_match_totals(self_df))
            /\ df_clean' = modern_data_filter(self_df, year)
            /\ pre_pc' = "cleaned"
    /\ UNCHANGED <<self_df, year, flatten_vars, ingest_vars, cli_vars>>

NextPre == CleanData \/ ValidateMatchOutcomes

SpecPre == InitPre /\ [][NextPre]_vars

----------------------------------------------------------------------------
\* Properties of the preprocessing (SpecPre)

\* the year of a date string "YYYY-MM-DD"
YearOf(start_date) == start_date \div 10000

\* the places in self.df of the rows from year Y on, in order
RECURSIVE PlacesFrom(_, _)
PlacesFrom(i, Y) ==
    IF i > Len(self_df.rows) THEN <<>>
    ELSE (IF YearOf(self_df.rows[i]["start_date"]) >= Y THEN <<i>> ELSE <<>>)
         \o PlacesFrom(i + 1, Y)

\* C6: clean_data returns exactly the rows whose start_date year is >= the
\* cutoff year: the returned rows are, in order, the input rows from that year
\* on, each with its date and every other column's value.
C6_TemporalFilter ==
    pre_pc = "cleaned" =>
        LET kept == PlacesFrom(1, year)
        IN  /\ Len(df_clean.rows) = Len(kept)
            /\ \A n \in 1..Len(kept) :
                 LET out == df_clean.rows[n]
                     in == self_df.rows[kept[n]]
                 IN  /\ dt_year(out["start_date"]) = YearOf(in["start_date"])
                     /\ out["start_date"] = Timestamp(YearOf(in["start_date"]),
                                                      (in["start_date"] \div 100) % 100,
                                                      in["start_date"] % 100)
                     /\ \A c \in self_df.columns \ {"start_date"} : out[c] = in[c]

\* clean_data with cutoff 2015 has dropped a row dated 2014-03-01 and kept a
\* row dated 2015-03-01
C6_Witness ==
    /\ pre_pc = "cleaned"
    /\ year = 2015
    /\ \E i \in 1..Len(self_df.rows) : self_df.rows[i]["start_date"] = 20140301
    /\ \E i \in 1..Len(self_df.rows) : self_df.rows[i]["start_date"] = 20150301
    /\ Len(df_clean.rows) = 1
    /\ dt_year(df_clean.rows[1]["start_date"]) = 2015

MatchIds == {self_df.rows[i]["match_id"] : i \in 1..Len(self_df.rows)}
MatchRows(m) == SelectSeq(self_df.rows, LAMBDA r : r["match_id"] = m)

\* the sum of runs_total over the rows of match m batted by the team `team`
\* (no row is batted by a team slot that is null)
RunsOf(m, team) ==
    SumSeq([i \in 1..Len(MatchRows(m)) |->
              IF team # None /\ MatchRows(m)[i]["batting_team"] = team
              THEN MatchRows(m)[i]["runs_total"] ELSE 0])

RecordedWinner(m) == MatchRows(m)[1]["outcome_winner"]
RecordedResult(m) == MatchRows(m)[1]["outcome_result"]
IsSkipped(m) ==
    RecordedWinner(m) = None \/ RecordedResult(m) \in {"draw", "tie", "no result"}
DiscrepanciesOf(m) == SelectSeq(discrepancies, LAMBDA d : d.match_id = m)
Validated == pre_pc \in {"cleaned", "validated"}

\* C7: for every match that is not skipped, with A and B the runs_total sums
\* of the rows batted by team_a and by team_b, the calculated winner is team_a
\* if A > B, team_b if B > A and null if A = B; there is exactly one
\* discrepancy row for the match when the calculated winner differs from the
\* recorded outcome_winner and none when they are equal, and the row carries
\* calculated_winner, outcome_winner, team_a_runs = A and team_b_runs = B.
\* (A team slot that is null bats no row: its sum is 0.)
C7_DiscrepancyIffWinnersDiffer ==
    Validated =>
        \A m \in MatchIds :
            ~IsSkipped(m) =>
                LET team_a == MatchRows(m)[1]["team_a"]
                    team_b == MatchRows(m)[1]["team_b"]
                    A == RunsOf(m, team_a)
                    B == RunsOf(m, team_b)
                    calculated == IF A > B THEN team_a
                                  ELSE IF B > A THEN team_b ELSE None
                    D == DiscrepanciesOf(m)
                IN  /\ Len(D) = (IF calculated # RecordedWinner(m) THEN 1 ELSE 0)
                    /\ \A n \in 1..Len(D) :
                         /\ D[n].calculated_winner = calculated
                         /\ D[n].outcome_winner = RecordedWinner(m)
                         /\ D[n].team_a_runs = A
                         /\ D[n].team_b_runs = B

\* the validation has reported a match with equal positive totals of two
\* different teams: the calculated winner is null, a winner is recorded
C7_Witness ==
    /\ Validated
    /\ \E n \in 1..Len(discrepancies) :
         /\ discrepancies[n].calculated_winner = None
         /\ discrepancies[n].outcome_winner # None
         /\ discrepancies[n].team_a # discrepancies[n].team_b
         /\ discrepancies[n].team_a_runs > 0
         /\ discrepancies[n].team_a_runs = discrepancies[n].team_b_runs

\* C8: validate_match_outcomes reports no discrepancy for a match whose
\* outcome_winner is null or whose outcome_result is draw, tie or no result,
\* whatever the run totals and the recorded winner.
C8_SkippedMatchesNotReported ==
    Validated =>
        \A m \in MatchIds : IsSkipped(m) => DiscrepanciesOf(m) = <<>>

\* the validation has passed over a drawn match whose recorded winner is not
\* the team with more runs
C8_Witness ==
    /\ Validated
    /\ \E m \in MatchIds :
         /\ RecordedResult(m) = "draw"
         /\ RecordedWinner(m) = "Y"
         /\ RunsOf(m, "X") > RunsOf(m, "Y")
         /\ MatchRows(m)[1]["team_a"] = "X"
         /\ DiscrepanciesOf(m) = <<>>

\* C9: in clean_data the outcome validation runs on the post-filter dataset:
\* every match for which a discrepancy is computed has at least one row
\* retained by the temporal filter.
C9_ValidationOnFilteredAsClaimed ==
    pre_pc = "cleaned" =>
        \A n \in 1..Len(discrepancies) :
            \E i \in 1..Len(df_clean.rows) :
                df_clean.rows[i]["match_id"] = discrepancies[n].match_id

\* a is b with some rows removed: the rows of a are rows of b, in b's order
RECURSIVE IsSubsequence(_, _)
IsSubsequence(a, b) ==
    IF a = <<>> THEN TRUE
    ELSE IF b = <<>> THEN FALSE
    ELSE IF Head(a) = Head(b) THEN IsSubsequence(Tail(a), Tail(b))
    ELSE IsSubsequence(a, Tail(b))

\* C17: clean_data and validate_match_outcomes leave self.df unchanged, and
\* clean_data only removes rows: the rows it returns are rows of self.df with
\* every field value unchanged, in the same relative order; calling
\* clean_data again returns the same result.
C17_RowRemovalOnlyAsClaimed ==
    [][ /\ self_df' = self_df
        /\ pre_pc' = "cleaned" =>
             /\ df_clean'.columns = self_df.columns
             /\ IsSubsequence(df_clean'.rows, self_df.rows)
             /\ pre_pc = "cleaned" => df_clean' = df_clean ]_vars

----------------------------------------------------------------------------
\* main.py and the parquet files (src/src/utils.py)

\* df.to_parquet(output_path, index=False): the file holds the frame's
\* columns and rows
to_parquet(df) == [exists |-> TRUE, columns |-> df.columns, rows |-> df.rows]

\* pd.read_parquet(input_path)
read_parquet(file) == [columns |-> file.columns, rows |-> file.rows]

\* the raw directory of a run: a file that is not *.json, a *.json file that
\* fails to parse, a document without deliveries, a 2015 match with a
\* recorded winner and no outcome_result, a drawn 2014 match
CliEntries ==
    { Entry("txt", "ok", Document(PlainInfo, <<>>)),
      Entry("json", "bad_json", Document(PlainInfo, <<>>)),
      Entry("json", "ok", Document(PlainInfo, <<>>)),
      Entry("json", "ok", Document(PlainInfo, << Innings("X", << Over(0, <<PlainBall>>) >>) >>)),
      Entry("json", "ok",
            Document(Info(<<"X", "Y">>, <<20140301>>, None, "Y", "draw"),
                     << Innings("X", << Over(0, <<PlainBall, WicketBall>>) >>) >>)) }

CliDirectories == SeqsBetween(CliEntries, 0, MaxFiles)

\* the command lines: <<args.command, args.year>>; only preprocess and all
\* take --year
CommandLines ==
    { <<"none", 0>>, <<"ingest", 0>> }
    \cup { <<c, y>> : c \in {"preprocess", "all"}, y \in CutoffYears }

\* the record of a finished process
Exit(c, e, status) == [command |-> c, raised |-> e, status |-> status]

InitCli ==
    /\ directory \in CliDirectories
    /\ files = <<>>
    /\ idx = 0
    /\ all_dfs = <<>>
    /\ success_count = 0
    /\ error_count = 0
    /\ error_log = <<>>
    /\ warnings_emitted = 0
    /\ result = EmptyFrame
    /\ ing_pc = "idle"
    /\ IdleFlatten
    /\ IdlePre
    /\ command = "none"
    /\ args_year = 0
    /\ cli_pc = "shell"
    /\ raised = "none"
    /\ ingested_data = NoFile
    /\ preprocessed_data = NoFile
    /\ exits = <<>>

\* main(), lines 119-134: a new process parses its arguments; with no command
\* it prints the help and exits 0, otherwise it calls args.func
ParseArgs ==
    /\ cli_pc = "shell"
    /\ Len(exits) < MaxCommands
    /\ \E line \in CommandLines :
         /\ command' = line[1]
         /\ args_year' = line[2]
         /\ IF line[1] = "none"
            THEN /\ exits' = Append(exits, Exit("none", "none", 0))
                 /\ cli_pc' = "shell"
            ELSE /\ exits' = exits
                 /\ cli_pc' = IF line[1] = "preprocess" THEN "cmd_preprocess"
                              ELSE "cmd_ingest"
         /\ ing_pc' = IF line[1] \in {"ingest", "all"} THEN "new" ELSE "idle"
    /\ raised' = "none"
    /\ files' = <<>>
    /\ idx' = 0
    /\ all_dfs' = <<>>
    /\ success_count' = 0
    /\ error_count' = 0
    /\ error_log' = <<>>
    /\ warnings_emitted' = 0
    /\ result' = EmptyFrame
    /\ self_df' = EmptyFrame
    /\ year' = 0
    /\ df_clean' = EmptyFrame
    /\ discrepancies' = <<>>
    /\ summary' = <<>>
    /\ pre_pc' = "idle"
    /\ UNCHANGED <<directory, ingested_data, preprocessed_data, flatten_vars>>

\* cmd_ingest, lines 25-26, after ingest_all returned; in cmd_run_all
\* cmd_preprocess follows
SaveIngested ==
    /\ cli_pc = "cmd_ingest"
    /\ ing_pc = "returned"
    /\ ingested_data' = to_parquet(result)
    /\ cli_pc' = IF command = "all" THEN "cmd_preprocess" ELSE "return"
    /\ UNCHANGED <<command, args_year, raised, preprocessed_data, exits,
                   flatten_vars, ingest_vars, pre_vars>>

\* cmd_preprocess with a load that reads a missing file as an empty frame
LoadFromParquetUnchecked ==
    /\ cli_pc = "cmd_preprocess"
    /\ self_df' = read_parquet(ingested_data)
    /\ year' = args_year
    /\ pre_pc' = "ready"
    /\ cli_pc' = "clean"
    /\ UNCHANGED <<raised, df_clean, discrepancies, summary>>
    /\ UNCHANGED <<command, args_year, ingested_data, preprocessed_data, exits,
                   flatten_vars, ingest_vars>>

\* cmd_preprocess, lines 33-36: load_from_parquet raises FileNotFoundError
\* when the file is missing, otherwise the preprocessor is constructed on
\* the loaded frame
LoadFromParquet ==
    /\ cli_pc = "cmd_preprocess"
    /\ IF ~ingested_data.exists
       THEN /\ raised' = "FileNotFoundError"
            /\ cli_pc' = "raising"
            /\ UNCHANGED <<self_df, year, pre_pc>>
       ELSE /\ self_df' = read_parquet(ingested_data)
            /\ year' = args_year
            /\ pre_pc' = "ready"
            /\ cli_pc' = "clean"
            /\ UNCHANGED raised
    /\ UNCHANGED <<df_clean, discrepancies, summary>>
    /\ UNCHANGED <<command, args_year, ingested_data, preprocessed_data, exits,
                   flatten_vars, ingest_vars>>

\* cmd_preprocess, line 37
CmdCleanData ==
    /\ cli_pc = "clean"
    /\ pre_pc = "ready"
    /\ CleanData

\* cmd_preprocess, lines 39-40
SavePreprocessed ==
    /\ cli_pc = "clean"
    /\ pre_pc = "cleaned"
    /\ preprocessed_data' = to_parquet(df_clean)
    /\ cli_pc' = "return"
    /\ UNCHANGED <<command, args_year, raised, ingested_data, exits,
                   flatten_vars, ingest_vars, pre_vars>>

\* main(), lines 135-137: the FileNotFoundError of __init__ or of
\* load_from_parquet reaches the first except clause
ExceptFileNotFoundError ==
    /\ \/ cli_pc = "cmd_ingest" /\ ing_pc = "raised"
       \/ cli_pc = "raising" /\ raised = "FileNotFoundError"
    /\ raised' = "FileNotFoundError"
    /\ exits' = Append(exits, Exit(command, "FileNotFoundError", 1))
    /\ cli_pc' = "shell"
    /\ UNCHANGED <<command, args_year, ingested_data, preprocessed_data,
                   flatten_vars, ingest_vars, pre_vars>>

\* main(), lines 138-140: the KeyError of clean_data reaches the second
\* except clause
ExceptException ==
    /\ cli_pc = "clean"
    /\ pre_pc = "raised"
    /\ raised' = "KeyError"
    /\ exits' = Append(exits, Exit(command, "KeyError", 1))
    /\ cli_pc' = "shell"
    /\ UNCHANGED <<command, args_year, ingested_data, preprocessed_data,
                   flatten_vars, ingest_vars, pre_vars>>

\* main() returns: the process ends with status 0
Return ==
    /\ cli_pc = "return"
    /\ exits' = Append(exits, Exit(command, "none", 0))
    /\ cli_pc' = "shell"
    /\ UNCHANGED <<command, args_year, raised, ingested_data, preprocessed_data,
                   flatten_vars, ingest_vars, pre_vars>>

NextCli ==
    \/ ParseArgs
    \/ Construct
    \/ IngestAllStart
    \/ ParseFile
    \/ IngestAllFinish
    \/ SaveIngested
    \/ LoadFromParquet
    \/ CmdCleanData
    \/ SavePreprocessed
    \/ ExceptFileNotFoundError
    \/ ExceptException
    \/ Return

SpecCli == InitCli /\ [][NextCli]_vars

----------------------------------------------------------------------------
\* Properties of the command line (SpecCli)

\* C12: a process whose command raised exits with a non-zero status, and the
\* status of a process that ended on a missing-input condition (no *.json
\* file, no ingested dataset) differs from the status of a process that ended
\* on any other failure.
C12_ExitStatusDistinguishesAsClaimed ==
    \A i, j \in 1..Len(exits) :
        /\ exits[i].raised # "none" => exits[i].status # 0
        /\ (exits[i].raised = "FileNotFoundError"
              /\ exits[j].raised \notin {"none", "FileNotFoundError"}) =>
             exits[i].status # exits[j].status

\* C13: the preprocessed dataset is written only by a preprocess that found
\* the ingested dataset; a preprocess that does not find it raises the
\* missing-input error and the process ends without writing anything; in the
\* combined command preprocess starts only in the step in which ingest, having
\* returned, writes the ingested dataset, and never after ingest raised.
C13_PreprocessNeedsIngested ==
    [][ /\ preprocessed_data' # preprocessed_data =>
             /\ ingested_data.exists
             /\ command \in {"preprocess", "all"}
             /\ cli_pc = "clean"
        /\ (cli_pc = "cmd_preprocess" /\ ~ingested_data.exists) =>
             /\ raised' = "FileNotFoundError"
             /\ cli_pc' = "raising"
             /\ UNCHANGED <<preprocessed_data, ingested_data>>
        /\ cli_pc = "raising" =>
             /\ cli_pc' = "shell"
             /\ exits'[Len(exits')].raised = "FileNotFoundError"
             /\ UNCHANGED <<preprocessed_data, ingested_data>>
        /\ (cli_pc # "cmd_preprocess" /\ cli_pc' = "cmd_preprocess") =>
             IF cli_pc = "shell" THEN command' = "preprocess"
             ELSE /\ command = "all"
                  /\ cli_pc = "cmd_ingest"
                  /\ ing_pc = "returned"
                  /\ ingested_data' = to_parquet(result)
        /\ (command = "all" /\ cli_pc = "cmd_ingest" /\ ing_pc = "raised") =>
             /\ cli_pc' = "shell"
             /\ UNCHANGED <<preprocessed_data, ingested_data, pre_vars>> ]_vars

\* a preprocess run before any ingest ended on the missing-input error with
\* nothing written, and a combined run after it wrote both datasets
C13_Witness ==
    /\ Len(exits) = 2
    /\ exits[1] = Exit("preprocess", "FileNotFoundError", 1)
    /\ exits[2] = Exit("all", "none", 0)
    /\ ingested_data.exists
    /\ preprocessed_data.exists
    /\ preprocessed_data.rows # <<>>

\* C15: on every dataset ingest_all returned, clean_data completes without a
\* missing-column failure: a combined run whose ingest wrote the ingested
\* dataset does not end on a KeyError.
C15_CleanDataCompletesAsClaimed ==
    cli_pc = "clean" => pre_pc # "raised"

====
